---- MODULE Spec2Model ----
(***************************************************************************)
(* Model of src/main.py: the FileManager (an insertion-ordered dict of     *)
(* path -> content, its add/get/update/delete/list operations and the ZIP  *)
(* export) and the EnhancedPackageGenerator handlers that drive it.        *)
(*                                                                         *)
(* A Python str is a sequence of code points (naturals); bytes are a       *)
(* sequence of naturals below 256.  Python's None is the value None.       *)
(***************************************************************************)
EXTENDS Integers, Sequences, FiniteSets, TLC

VARIABLES
    files,          \* FileManager.files: the dict, as <<[path, content]>> in insertion order
    last,           \* the last call made from outside: its name, arguments and result
    lastWrite,      \* history: per path, the content of the latest write not followed by a delete
    empty_name_ok,  \* whether this interpreter's zipfile.writestr accepts an empty arcname
    GEMINI_AVAILABLE,   \* whether google.generativeai could be imported
    package_name,       \* package_name.value
    include_tests,      \* include_tests.value
    include_docs,       \* include_docs.value
    use_gemini,         \* use_gemini.value
    file_list_options,  \* file_list.options
    file_list_value,    \* file_list.value: the selected path, or None
    file_editor,        \* file_editor.value
    new_file_name,      \* new_file_name.value
    download_disabled,  \* download_button.disabled
    status_output,      \* the latest item shown in status_output
    clicks              \* number of user events so far

store_vars == <<files, last, lastWrite, empty_name_ok>>

ui_vars == <<GEMINI_AVAILABLE, package_name, include_tests, include_docs, use_gemini,
             file_list_options, file_list_value, file_editor, new_file_name,
             download_disabled, status_output, clicks>>

vars == <<store_vars, ui_vars>>

(***************************************************************************)
(* Bounds of the model.                                                    *)
(***************************************************************************)
MaxFiles == 2
MaxZipCalls == 2
MaxClicks == 4

None == <<-1>>

\* "a/b", "a", "", "d/", "a\0x"
Paths == { <<97, 47, 98>>, <<97>>, <<>>, <<100, 47>>, <<97, 0, 120>> }

\* "", "é" (two bytes in UTF-8), "\udc80" (a lone surrogate: not encodable)
Contents == { <<>>, <<233>>, <<56448>> }

(***************************************************************************)
(* Python str and dict primitives.                                         *)
(***************************************************************************)
RECURSIVE StrLess(_, _)
\* s < t on str: code point by code point, a proper prefix is smaller.
StrLess(s, t) ==
    IF t = <<>> THEN FALSE
    ELSE IF s = <<>> THEN TRUE
    ELSE IF Head(s) # Head(t) THEN Head(s) < Head(t)
    ELSE StrLess(Tail(s), Tail(t))

RECURSIVE InsertSorted(_, _)
InsertSorted(x, s) ==
    IF s = <<>> THEN <<x>>
    ELSE IF StrLess(x, Head(s)) THEN <<x>> \o s
    ELSE <<Head(s)>> \o InsertSorted(x, Tail(s))

RECURSIVE sorted(_)
\* sorted(iterable) on a sequence of str (stable; the keys of a dict are distinct).
sorted(s) == IF s = <<>> THEN <<>> ELSE InsertSorted(s[Len(s)], sorted(SubSeq(s, 1, Len(s) - 1)))

\* list(d.keys()): in insertion order.
Keys(d) == [i \in 1..Len(d) |-> d[i].path]

\* path in d
Has(d, p) == \E i \in 1..Len(d) : d[i].path = p

\* d[p] = c: an existing key keeps its position, a new key goes last.
DictSet(d, p, c) ==
    IF Has(d, p)
    THEN [i \in 1..Len(d) |-> IF d[i].path = p THEN [path |-> p, content |-> c] ELSE d[i]]
    ELSE Append(d, [path |-> p, content |-> c])

\* del d[p]
DictDel(d, p) == SelectSeq(d, LAMBDA e : e.path # p)

\* d.get(p, default)
DictGet(d, p, default) ==
    IF Has(d, p) THEN d[CHOOSE i \in 1..Len(d) : d[i].path = p].content ELSE default

(***************************************************************************)
(* FileManager methods, as functions of the dict.                          *)
(***************************************************************************)
add_file(d, path, content) == DictSet(d, path, content)

\* get_file through files.setdefault(path, ''): an absent path is created.
get_file_setdefault(d, path) ==
    [files |-> IF Has(d, path) THEN d ELSE DictSet(d, path, <<>>),
     ret   |-> DictGet(d, path, <<>>)]

get_file(d, path) == [files |-> d, ret |-> DictGet(d, path, <<>>)]

\* update_file without the membership test: the write always happens.
update_file_upsert(d, path, content) ==
    [files |-> DictSet(d, path, content), ret |-> Has(d, path)]

update_file(d, path, content) ==
    IF Has(d, path)
    THEN [files |-> DictSet(d, path, content), ret |-> TRUE]
    ELSE [files |-> d, ret |-> FALSE]

\* delete_file emptying the dict (files.clear()) in place of del files[path].
delete_file_clear(d, path) ==
    IF Has(d, path) THEN [files |-> <<>>, ret |-> TRUE] ELSE [files |-> d, ret |-> FALSE]

delete_file(d, path) ==
    IF Has(d, path)
    THEN [files |-> DictDel(d, path), ret |-> TRUE]
    ELSE [files |-> d, ret |-> FALSE]

\* get_all_files without the sort: the keys as the dict holds them.
get_all_files_unsorted(d) == Keys(d)

get_all_files(d) == sorted(Keys(d))

(***************************************************************************)
(* The text encoding and the archive library (CPython's zipfile), as far   *)
(* as create_zip uses them.  Deflate is lossless and is not modelled: an   *)
(* archive is the sequence of its members, each with its encoded name and  *)
(* its encoded data.                                                       *)
(***************************************************************************)
IsSurrogate(cp) == cp >= 55296 /\ cp <= 57343

EncodeCp(cp) ==
    IF cp < 128 THEN <<cp>>
    ELSE IF cp < 2048 THEN <<192 + (cp \div 64), 128 + (cp % 64)>>
    ELSE IF cp < 65536
         THEN <<224 + (cp \div 4096), 128 + ((cp \div 64) % 64), 128 + (cp % 64)>>
         ELSE <<240 + (cp \div 262144), 128 + ((cp \div 4096) % 64),
                128 + ((cp \div 64) % 64), 128 + (cp % 64)>>

RECURSIVE Utf8Encode(_)
\* s.encode("utf-8"): ok = FALSE stands for UnicodeEncodeError.
Utf8Encode(s) ==
    IF s = <<>> THEN [ok |-> TRUE, bytes |-> <<>>]
    ELSE LET rest == Utf8Encode(Tail(s))
         IN  IF IsSurrogate(Head(s)) \/ ~rest.ok
             THEN [ok |-> FALSE, bytes |-> <<>>]
             ELSE [ok |-> TRUE, bytes |-> EncodeCp(Head(s)) \o rest.bytes]

RECURSIVE Utf8Decode(_)
\* b.decode("utf-8") of well-formed input.
Utf8Decode(b) ==
    IF b = <<>> THEN <<>>
    ELSE IF b[1] < 128 THEN <<b[1]>> \o Utf8Decode(SubSeq(b, 2, Len(b)))
    ELSE IF b[1] < 224
         THEN <<(b[1] - 192) * 64 + (b[2] - 128)>> \o Utf8Decode(SubSeq(b, 3, Len(b)))
    ELSE IF b[1] < 240
         THEN <<(b[1] - 224) * 4096 + (b[2] - 128) * 64 + (b[3] - 128)>>
              \o Utf8Decode(SubSeq(b, 4, Len(b)))
         ELSE <<(b[1] - 240) * 262144 + (b[2] - 128) * 4096 + (b[3] - 128) * 64 + (b[4] - 128)>>
              \o Utf8Decode(SubSeq(b, 5, Len(b)))

\* ZipInfo(filename): the name is cut at its first NUL (os.sep is "/": nothing to replace).
ZipInfoFilename(name) ==
    IF \E i \in 1..Len(name) : name[i] = 0
    THEN SubSeq(name, 1, (CHOOSE i \in 1..Len(name) :
                            name[i] = 0 /\ \A j \in 1..(i - 1) : name[j] # 0) - 1)
    ELSE name

\* ZipFile.writestr(arcname, data) on an open archive zf = [raised, exc, path, data]:
\* whether an exception was raised, its type, the path it names (neither
\* UnicodeEncodeError nor IndexError names one) and the members written so far.
\* The data is encoded first; then the ZipInfo is built and its last character is
\* looked at (filename[-1] in interpreters up to 3.11, endswith('/') later); then the
\* header is written with the encoded name.
writestr(zf, arcname, data) ==
    LET bytes    == Utf8Encode(data)
        filename == ZipInfoFilename(arcname)
        name     == Utf8Encode(filename)
    IN  IF zf.raised THEN zf
        ELSE IF ~bytes.ok THEN [raised |-> TRUE, exc |-> "UnicodeEncodeError", path |-> None, data |-> <<>>]
        ELSE IF filename = <<>> /\ ~empty_name_ok
             THEN [raised |-> TRUE, exc |-> "IndexError", path |-> None, data |-> <<>>]
        ELSE IF ~name.ok THEN [raised |-> TRUE, exc |-> "UnicodeEncodeError", path |-> None, data |-> <<>>]
        ELSE [raised |-> FALSE, exc |-> "", path |-> None,
              data |-> Append(zf.data, [filename |-> name.bytes, data |-> bytes.bytes])]

RECURSIVE WriteAll(_, _)
\* for path, content in items: zf.writestr(path, content)
WriteAll(zf, items) ==
    IF items = <<>> THEN zf
    ELSE WriteAll(writestr(zf, Head(items).path, Head(items).content), Tail(items))

\* create_zip draining the dict while it writes (files.popitem()).
create_zip_draining(d) ==
    [files |-> <<>>, ret |-> WriteAll([raised |-> FALSE, exc |-> "", path |-> None, data |-> <<>>], d)]

\* FileManager.create_zip: a fresh buffer, one writestr per item of the dict in the
\* dict's own (insertion) order.  An exception leaves the with-block and the method:
\* nothing is returned.
create_zip(d) ==
    [files |-> d, ret |-> WriteAll([raised |-> FALSE, exc |-> "", path |-> None, data |-> <<>>], d)]

\* Reading an archive back (ZipFile.infolist and ZipFile.read): the members in
\* archive order, each with its name, whether the name marks a directory, and its text.
ZipDecode(data) ==
    [i \in 1..Len(data) |->
        LET fn == Utf8Decode(data[i].filename)
        IN  [filename |-> fn,
             is_dir   |-> fn # <<>> /\ fn[Len(fn)] = 47,
             content  |-> Utf8Decode(data[i].data)]]

(***************************************************************************)
(* The calls on a FileManager.                                             *)
(***************************************************************************)
Call(op, path, content, ret, n) ==
    [op |-> op, path |-> path, content |-> content, ret |-> ret, n |-> n]

\* An item in status_output: a printed message with its argument, or a displayed widget.
Shown(msg, arg) == [msg |-> msg, arg |-> arg]

\* FileManager.__init__ and the widgets as setup_ui_components builds them.
InitObjects ==
    /\ files = <<>>
    /\ last = Call("__init__", None, None, None, 0)
    /\ lastWrite = [p \in Paths |-> None]
    /\ empty_name_ok \in BOOLEAN
    /\ package_name = <<112>>
    /\ include_tests = TRUE
    /\ include_docs = TRUE
    /\ use_gemini = FALSE
    /\ file_list_options = <<>>
    /\ file_list_value = None
    /\ file_editor = <<>>
    /\ new_file_name = <<>>
    /\ download_disabled = TRUE
    /\ status_output = Shown("", None)
    /\ clicks = 0

\* A FileManager called directly: none of its methods reads the import flag.
Init == InitObjects /\ GEMINI_AVAILABLE = FALSE

AddFile(p, c) ==
    /\ Has(files, p) \/ Len(files) < MaxFiles
    /\ files' = add_file(files, p, c)
    /\ last' = Call("add_file", p, c, None, 0)
    /\ lastWrite' = [lastWrite EXCEPT ![p] = c]
    /\ UNCHANGED <<empty_name_ok, ui_vars>>

GetFile(p) ==
    LET r == get_file(files, p)
    IN  /\ files' = r.files
        /\ last' = Call("get_file", p, None, r.ret, 0)
        /\ UNCHANGED <<lastWrite, empty_name_ok, ui_vars>>

UpdateFile(p, c) ==
    LET r == update_file(files, p, c)
    IN  /\ files' = r.files
        /\ last' = Call("update_file", p, c, r.ret, 0)
        /\ lastWrite' = IF lastWrite[p] # None THEN [lastWrite EXCEPT ![p] = c] ELSE lastWrite
        /\ UNCHANGED <<empty_name_ok, ui_vars>>

DeleteFile(p) ==
    LET r == delete_file(files, p)
    IN  /\ files' = r.files
        /\ last' = Call("delete_file", p, None, r.ret, 0)
        /\ lastWrite' = [lastWrite EXCEPT ![p] = None]
        /\ UNCHANGED <<empty_name_ok, ui_vars>>

GetAllFiles ==
    /\ last' = Call("get_all_files", None, None, get_all_files(files), 0)
    /\ UNCHANGED <<files, lastWrite, empty_name_ok, ui_vars>>

\* Consecutive create_zip calls are counted, up to MaxZipCalls.
CreateZip ==
    LET r == create_zip(files)
        n == IF last.op = "create_zip" THEN last.n ELSE 0
    IN  /\ n < MaxZipCalls
        /\ files' = r.files
        /\ last' = Call("create_zip", None, None, r.ret, n + 1)
        /\ UNCHANGED <<lastWrite, empty_name_ok, ui_vars>>

Next ==
    \/ \E p \in Paths, c \in Contents : AddFile(p, c)
    \/ \E p \in Paths : GetFile(p)
    \/ \E p \in Paths, c \in Contents : UpdateFile(p, c)
    \/ \E p \in Paths : DeleteFile(p)
    \/ GetAllFiles
    \/ CreateZip

Spec == Init /\ [][Next]_vars

(***************************************************************************)
(* EnhancedPackageGenerator.  The metadata widgets other than the package  *)
(* name keep their (valid) defaults.  Template texts are cut to their      *)
(* first characters; distinct templates stay distinct.                     *)
(***************************************************************************)
\* "p" (valid) and "1" (rejected by validate_inputs)
PackageNames == { <<112>>, <<49>> }

\* what the user may type into the editor: "", "é"
EditorTexts == { <<>>, <<233>> }

\* what the user may type into the new-file box: " ", " a", "d/"
NewFileNames == { <<32>>, <<32, 97>>, <<100, 47>> }

\* how a call of the Gemini service ends
GeminiOutcomes == { "no_key", "raises", "text" }

IsLetter(cp) == (cp >= 65 /\ cp <= 90) \/ (cp >= 97 /\ cp <= 122)

IsWord(cp) == IsLetter(cp) \/ (cp >= 48 /\ cp <= 57) \/ cp = 95

\* re.match(r'^[a-zA-Z][a-zA-Z0-9_]*$', s): '$' also matches before a final newline.
ValidPackageName(s) ==
    /\ Len(s) >= 1
    /\ IsLetter(s[1])
    /\ \A i \in 2..Len(s) : IsWord(s[i]) \/ (i = Len(s) /\ s[i] = 10)

\* validate_inputs() is empty (a list of error messages otherwise).
validate_inputs == IF ValidPackageName(package_name) THEN <<>> ELSE <<"Invalid package name format">>

IsSpace(cp) == cp \in {9, 10, 11, 12, 13, 28, 29, 30, 31, 32, 133, 160}

RECURSIVE LStrip(_)
LStrip(s) == IF s # <<>> /\ IsSpace(Head(s)) THEN LStrip(Tail(s)) ELSE s

RECURSIVE RStrip(_)
RStrip(s) == IF s # <<>> /\ IsSpace(s[Len(s)]) THEN RStrip(SubSeq(s, 1, Len(s) - 1)) ELSE s

\* str.strip()
Strip(s) == RStrip(LStrip(s))

\* bool(x) of a str or None
Truthy(x) == x # None /\ x # <<>>

PyprojectPath(pkg) == pkg \o <<47, 112, 121, 112, 114, 111, 106, 101, 99, 116, 46, 116, 111, 109, 108>>
InitPyPath(pkg)    == pkg \o <<47>> \o pkg \o <<47, 95, 95, 105, 110, 105, 116, 95, 95, 46, 112, 121>>
ReadmePath(pkg)    == pkg \o <<47, 82, 69, 65, 68, 77, 69, 46, 109, 100>>
LicensePath(pkg)   == pkg \o <<47, 76, 73, 67, 69, 78, 83, 69>>
TestsInitPath(pkg) == pkg \o <<47, 116, 101, 115, 116, 115, 47, 95, 95, 105, 110, 105, 116, 95, 95, 46, 112, 121>>
TestMainPath(pkg)  == pkg \o <<47, 116, 101, 115, 116, 115, 47, 116, 101, 115, 116, 95, 109, 97, 105, 110, 46, 112, 121>>
PytestIniPath(pkg) == pkg \o <<47, 112, 121, 116, 101, 115, 116, 46, 105, 110, 105>>
DocsIndexPath(pkg) == pkg \o <<47, 100, 111, 99, 115, 47, 105, 110, 100, 101, 120, 46, 109, 100>>

PyprojectText    == <<123>>                          \* {
InitPyText(pkg)  == <<34, 34, 34, 80>>               \* """P
ReadmeText(pkg)  == <<35, 32>> \o pkg                \* # <pkg>
LicenseText      == <<77, 73, 84>>                   \* MIT
TestMainText     == <<105, 109, 112>>                \* imp
PytestIniText    == <<91, 112, 121>>                 \* [py
GeminiUnavailableText == <<35, 32, 65, 73>>          \* # AI
GeminiNoKeyText  == <<35, 32, 78, 111>>              \* # No
GeminiErrorText  == <<35, 32, 69, 114>>              \* # Er
GeminiResponseText == <<71, 101, 110>>               \* what the service answered

generate_basic_docs(pkg) == <<35, 32>> \o pkg \o <<32, 68, 111, 99>>   \* # <pkg> Doc

\* generate_gemini_content without its try/except: the service's exception leaves it.
generate_gemini_content_no_except(outcome) ==
    IF ~GEMINI_AVAILABLE THEN [raised |-> FALSE, text |-> GeminiUnavailableText]
    ELSE IF outcome = "no_key" THEN [raised |-> FALSE, text |-> GeminiNoKeyText]
    ELSE IF outcome = "raises" THEN [raised |-> TRUE, text |-> <<>>]
    ELSE [raised |-> FALSE, text |-> GeminiResponseText]

\* generate_gemini_content(prompt), the service call ending as `outcome`: the text
\* returned, or raised = TRUE for an exception leaving the method.
generate_gemini_content(outcome) ==
    IF ~GEMINI_AVAILABLE THEN [raised |-> FALSE, text |-> GeminiUnavailableText]
    ELSE IF outcome = "no_key" THEN [raised |-> FALSE, text |-> GeminiNoKeyText]
    ELSE IF outcome = "raises" THEN [raised |-> FALSE, text |-> GeminiErrorText]
    ELSE [raised |-> FALSE, text |-> GeminiResponseText]

generate_doc_files(d, pkg, outcome) ==
    LET docs_content == IF use_gemini /\ GEMINI_AVAILABLE
                        THEN generate_gemini_content(outcome)
                        ELSE [raised |-> FALSE, text |-> generate_basic_docs(pkg)]
    IN  IF docs_content.raised THEN [raised |-> TRUE, files |-> d]
        ELSE [raised |-> FALSE, files |-> add_file(d, DocsIndexPath(pkg), docs_content.text)]

generate_standard_files(d, pkg) ==
    add_file(add_file(add_file(d, InitPyPath(pkg), InitPyText(pkg)),
                      ReadmePath(pkg), ReadmeText(pkg)),
             LicensePath(pkg), LicenseText)

generate_test_files(d, pkg) ==
    add_file(add_file(add_file(d, TestsInitPath(pkg), <<>>),
                      TestMainPath(pkg), TestMainText),
             PytestIniPath(pkg), PytestIniText)

\* on_file_selected(change): the text the editor is given for the new selection.
on_file_selected(d, new) == IF Truthy(new) THEN get_file(d, new).ret ELSE <<>>

\* The widgets a handler changes: w = [options, value, editor].
Widgets == [options |-> file_list_options, value |-> file_list_value, editor |-> file_editor]

\* update_file_list(): file_list.options = get_all_files().  When the options change,
\* the Select widget selects the first option (None when there is none), and a changed
\* selection runs on_file_selected.
update_file_list(d, w) ==
    LET opts == get_all_files(d)
        v    == IF Len(opts) > 0 THEN opts[1] ELSE None
    IN  IF opts = w.options THEN w
        ELSE [options |-> opts,
              value   |-> v,
              editor  |-> IF v # w.value THEN on_file_selected(d, v) ELSE w.editor]

\* generate_package_files without its closing update_file_list() call.
generate_package_files_no_refresh(d, w, outcome) ==
    LET pkg == package_name
        d1  == add_file(d, PyprojectPath(pkg), PyprojectText)
        d2  == generate_standard_files(d1, pkg)
        d3  == IF include_tests THEN generate_test_files(d2, pkg) ELSE d2
        r4  == IF include_docs THEN generate_doc_files(d3, pkg, outcome)
                               ELSE [raised |-> FALSE, files |-> d3]
    IN  [raised |-> r4.raised, files |-> r4.files, w |-> w]

\* generate_package_files(): [raised, files, w].
generate_package_files(d, w, outcome) ==
    LET pkg == package_name
        d1  == add_file(d, PyprojectPath(pkg), PyprojectText)
        d2  == generate_standard_files(d1, pkg)
        d3  == IF include_tests THEN generate_test_files(d2, pkg) ELSE d2
        r4  == IF include_docs THEN generate_doc_files(d3, pkg, outcome)
                               ELSE [raised |-> FALSE, files |-> d3]
    IN  IF r4.raised THEN [raised |-> TRUE, files |-> r4.files, w |-> w]
        ELSE [raised |-> FALSE, files |-> r4.files, w |-> update_file_list(r4.files, w)]

SetWidgets(w) ==
    /\ file_list_options' = w.options
    /\ file_list_value' = w.value
    /\ file_editor' = w.editor

Click ==
    /\ clicks < MaxClicks
    /\ clicks' = clicks + 1

\* The service is called only when docs are included, Gemini is asked for and available.
CallsGemini == include_docs /\ use_gemini /\ GEMINI_AVAILABLE

on_generate_package_clicked(outcome) ==
    /\ Click
    /\ CallsGemini \/ outcome = "text"
    /\ IF validate_inputs # <<>>
       THEN /\ status_output' = Shown(validate_inputs[Len(validate_inputs)], None)
            /\ last' = Call("on_generate_package_clicked", None, None, "invalid", 0)
            /\ UNCHANGED <<files, file_list_options, file_list_value, file_editor,
                           download_disabled>>
       ELSE LET r == generate_package_files(files, Widgets, outcome)
            IN  /\ files' = r.files
                /\ SetWidgets(r.w)
                /\ IF r.raised
                   THEN /\ status_output' = Shown("Error generating package", None)
                        /\ UNCHANGED download_disabled
                   ELSE /\ status_output' = Shown("Package created successfully!", package_name)
                        /\ download_disabled' = FALSE
                /\ last' = Call("on_generate_package_clicked", None, None,
                                IF CallsGemini THEN outcome ELSE "not called", 0)
    /\ UNCHANGED <<lastWrite, empty_name_ok, GEMINI_AVAILABLE, package_name, include_tests,
                   include_docs, use_gemini, new_file_name>>

\* The button is clickable once enabled.  `importable`: whether ipywidgets has FileDownload.
on_download_zip_clicked(importable) ==
    /\ Click
    /\ ~download_disabled
    /\ LET r == create_zip(files)
       IN  /\ files' = r.files
           /\ status_output' =
                  IF r.ret.raised THEN Shown("Error preparing download", r.ret.exc)
                  ELSE IF ~importable THEN Shown("Error preparing download", "ImportError")
                  ELSE Shown("FileDownload", r.ret.data)
           /\ last' = Call("on_download_zip_clicked", None, None, r.ret.raised, 0)
    /\ UNCHANGED <<lastWrite, empty_name_ok, GEMINI_AVAILABLE, package_name, include_tests,
                   include_docs, use_gemini, file_list_options, file_list_value, file_editor,
                   new_file_name, download_disabled>>

on_save_file_clicked ==
    /\ Click
    /\ LET file_path == file_list_value
       IN  IF Truthy(file_path)
           THEN LET r == update_file(files, file_path, file_editor)
                IN  /\ files' = r.files
                    /\ status_output' = Shown("Changes saved for", file_path)
                    /\ last' = Call("on_save_file_clicked", file_path, file_editor, r.ret, 0)
           ELSE /\ status_output' = Shown("No file selected to save.", None)
                /\ last' = Call("on_save_file_clicked", file_path, file_editor, None, 0)
                /\ UNCHANGED files
    /\ UNCHANGED <<lastWrite, empty_name_ok, GEMINI_AVAILABLE, package_name, include_tests,
                   include_docs, use_gemini, file_list_options, file_list_value, file_editor,
                   new_file_name, download_disabled>>

\* on_delete_file_clicked without the update_file_list() call.
delete_selected_no_refresh(d, w, file_path) ==
    [files |-> delete_file(d, file_path).files, w |-> [w EXCEPT !.editor = <<>>]]

\* [files, w] after the selected file is deleted.
delete_selected(d, w, file_path) ==
    LET r  == delete_file(d, file_path)
        w1 == update_file_list(r.files, w)
    IN  [files |-> r.files, w |-> [w1 EXCEPT !.editor = <<>>]]

on_delete_file_clicked ==
    /\ Click
    /\ LET file_path == file_list_value
       IN  IF Truthy(file_path)
           THEN LET r == delete_selected(files, Widgets, file_path)
                IN  /\ files' = r.files
                    /\ SetWidgets(r.w)
                    /\ status_output' = Shown("File deleted.", file_path)
           ELSE /\ status_output' = Shown("No file selected to delete.", None)
                /\ UNCHANGED <<files, file_list_options, file_list_value, file_editor>>
    /\ last' = Call("on_delete_file_clicked", file_list_value, None, None, 0)
    /\ UNCHANGED <<lastWrite, empty_name_ok, GEMINI_AVAILABLE, package_name, include_tests,
                   include_docs, use_gemini, new_file_name, download_disabled>>

on_add_file_clicked ==
    /\ Click
    /\ LET new_path == Strip(new_file_name)
       IN  /\ IF Truthy(new_path)
              THEN LET d == add_file(files, new_path, <<>>)
                   IN  /\ files' = d
                       /\ SetWidgets(update_file_list(d, Widgets))
                       /\ new_file_name' = <<>>
                       /\ status_output' = Shown("File added.", new_path)
              ELSE /\ status_output' = Shown("Enter a valid file path to add.", None)
                   /\ UNCHANGED <<files, file_list_options, file_list_value, file_editor,
                                  new_file_name>>
           /\ last' = Call("on_add_file_clicked", new_path, None, None, 0)
    /\ UNCHANGED <<lastWrite, empty_name_ok, GEMINI_AVAILABLE, package_name, include_tests,
                   include_docs, use_gemini, download_disabled>>

\* The user picks another entry of the list: the observer loads it into the editor.
SelectFile(p) ==
    /\ Click
    /\ p # file_list_value
    /\ file_list_value' = p
    /\ file_editor' = on_file_selected(files, p)
    /\ last' = Call("on_file_selected", p, None, None, 0)
    /\ UNCHANGED <<files, lastWrite, empty_name_ok, GEMINI_AVAILABLE, package_name,
                   include_tests, include_docs, use_gemini, file_list_options, new_file_name,
                   download_disabled, status_output>>

TypeEditor(c) ==
    /\ Click
    /\ c # file_editor
    /\ file_editor' = c
    /\ last' = Call("file_editor", None, c, None, 0)
    /\ UNCHANGED <<files, lastWrite, empty_name_ok, GEMINI_AVAILABLE, package_name,
                   include_tests, include_docs, use_gemini, file_list_options,
                   file_list_value, new_file_name, download_disabled, status_output>>

TypeNewFileName(s) ==
    /\ Click
    /\ s # new_file_name
    /\ new_file_name' = s
    /\ last' = Call("new_file_name", s, None, None, 0)
    /\ UNCHANGED <<files, lastWrite, empty_name_ok, GEMINI_AVAILABLE, package_name,
                   include_tests, include_docs, use_gemini, file_list_options,
                   file_list_value, file_editor, download_disabled, status_output>>

TypePackageName(s) ==
    /\ Click
    /\ s # package_name
    /\ package_name' = s
    /\ last' = Call("package_name", s, None, None, 0)
    /\ UNCHANGED <<files, lastWrite, empty_name_ok, GEMINI_AVAILABLE, include_tests,
                   include_docs, use_gemini, file_list_options, file_list_value, file_editor,
                   new_file_name, download_disabled, status_output>>

\* The user ticks or unticks one of the three checkboxes.
ToggleCheckbox(box) ==
    /\ Click
    /\ include_tests' = IF box = "include_tests" THEN ~include_tests ELSE include_tests
    /\ include_docs' = IF box = "include_docs" THEN ~include_docs ELSE include_docs
    /\ use_gemini' = IF box = "use_gemini" THEN ~use_gemini ELSE use_gemini
    /\ last' = Call(box, None, None, None, 0)
    /\ UNCHANGED <<files, lastWrite, empty_name_ok, GEMINI_AVAILABLE, package_name,
                   file_list_options, file_list_value, file_editor, new_file_name,
                   download_disabled, status_output>>

InitUI == InitObjects /\ GEMINI_AVAILABLE \in BOOLEAN

NextUI ==
    \/ \E outcome \in GeminiOutcomes : on_generate_package_clicked(outcome)
    \/ \E importable \in BOOLEAN : on_download_zip_clicked(importable)
    \/ on_save_file_clicked
    \/ on_delete_file_clicked
    \/ on_add_file_clicked
    \/ \E i \in 1..Len(file_list_options) : SelectFile(file_list_options[i])
    \/ \E c \in EditorTexts : TypeEditor(c)
    \/ \E s \in NewFileNames : TypeNewFileName(s)
    \/ \E s \in PackageNames : TypePackageName(s)
    \/ \E box \in {"include_tests", "include_docs", "use_gemini"} : ToggleCheckbox(box)

SpecUI == InitUI /\ [][NextUI]_vars

(***************************************************************************)
(* A FileManager that is only ever written with add_file.                  *)
(***************************************************************************)
NextAdd ==
    \/ \E p \in Paths, c \in Contents : AddFile(p, c)
    \/ GetAllFiles

SpecAdd == Init /\ [][NextAdd]_vars

(***************************************************************************)
(* Vocabulary of the properties.                                           *)
(***************************************************************************)
\* s comes strictly before t in lexicographic (code point) order.
Precedes(s, t) ==
    \E k \in 1..Len(t) :
        /\ \A i \in 1..(k - 1) : i <= Len(s) /\ s[i] = t[i]
        /\ Len(s) >= k - 1
        /\ (Len(s) = k - 1 \/ s[k] < t[k])

\* The dict as a mapping: its (path, content) pairs.
AsMap(d) == { <<d[i].path, d[i].content>> : i \in 1..Len(d) }

KeySet(d) == { d[i].path : i \in 1..Len(d) }

\* The paths written so far and not deleted since.
Written == { p \in Paths : lastWrite[p] # None }

\* The (path, content) pairs an archive decodes to.
DecodedPairs(data) ==
    { <<ZipDecode(data)[i].filename, ZipDecode(data)[i].content>> : i \in 1..Len(data) }

Encodable(s) == \A i \in 1..Len(s) : ~IsSurrogate(s[i])

\* An entry the archive cannot hold: an empty path, or text that cannot be encoded.
Offending(e) == e.path = <<>> \/ ~Encodable(e.path) \/ ~Encodable(e.content)

\* Paths that name a file member as they stand, and text that can be encoded.
WellFormed(d) ==
    \A i \in 1..Len(d) :
        /\ d[i].path # <<>>
        /\ \A k \in 1..Len(d[i].path) : d[i].path[k] # 0
        /\ d[i].path[Len(d[i].path)] # 47
        /\ Encodable(d[i].path)
        /\ Encodable(d[i].content)

(***************************************************************************)
(* C1: after add_file calls only, get_all_files() is the distinct paths    *)
(* written, each once, in strictly ascending lexicographic order.  There   *)
(* is one such sequence per set of paths, so the listing is the same for   *)
(* every insertion order of the same paths.                                *)
(***************************************************************************)
C1_ListingSortedDistinct ==
    last.op = "get_all_files" =>
        /\ \A i, j \in 1..Len(last.ret) : i < j => Precedes(last.ret[i], last.ret[j])
        /\ { last.ret[i] : i \in 1..Len(last.ret) } = Written

\* Two paths were inserted in descending order and then listed.
C1_Witness ==
    /\ last.op = "get_all_files"
    /\ Len(files) = 2
    /\ Precedes(files[2].path, files[1].path)
    /\ last.ret = <<files[2].path, files[1].path>>

(***************************************************************************)
(* C2: update_file(p, c) on an absent p returns False and changes nothing  *)
(* (p is not created); on a present p it returns True, sets the content of *)
(* p to c and leaves the key set and every other entry as they were.       *)
(***************************************************************************)
C2_UpdateFile ==
    [][ last'.op = "update_file" =>
            IF last'.path \notin KeySet(files)
            THEN last'.ret = FALSE /\ AsMap(files') = AsMap(files)
            ELSE /\ last'.ret = TRUE
                 /\ KeySet(files') = KeySet(files)
                 /\ AsMap(files') =
                        { e \in AsMap(files) : e[1] # last'.path }
                            \cup { <<last'.path, last'.content>> } ]_vars

\* A successful update with another entry beside it.
C2_Witness ==
    /\ last.op = "update_file"
    /\ last.ret = TRUE
    /\ Len(files) = 2
    /\ <<last.path, last.content>> \in AsMap(files)

(***************************************************************************)
(* C3: delete_file(p) on an absent p returns False and changes nothing; on *)
(* a present p it returns True, p is no longer listed, and every other     *)
(* entry is as it was.                                                     *)
(***************************************************************************)
C3_DeleteFile ==
    [][ last'.op = "delete_file" =>
            IF last'.path \notin KeySet(files)
            THEN last'.ret = FALSE /\ AsMap(files') = AsMap(files)
            ELSE /\ last'.ret = TRUE
                 /\ \A i \in 1..Len(get_all_files(files')) :
                        get_all_files(files')[i] # last'.path
                 /\ AsMap(files') = { e \in AsMap(files) : e[1] # last'.path } ]_vars

\* A successful delete that left another entry behind.
C3_Witness ==
    /\ last.op = "delete_file"
    /\ last.ret = TRUE
    /\ Len(files) = 1
    /\ last.path \notin KeySet(files)

(***************************************************************************)
(* C4: the archive create_zip() returns decodes to exactly one member per  *)
(* path of the store and no others (no directory members, no duplicates),  *)
(* each with the stored content of its path.                               *)
(***************************************************************************)
C4_RoundTrip ==
    (last.op = "create_zip" /\ ~last.ret.raised) =>
        LET m == ZipDecode(last.ret.data)
        IN  /\ Len(m) = Len(files)
            /\ \A i, j \in 1..Len(m) : i # j => m[i].filename # m[j].filename
            /\ \A i \in 1..Len(m) : ~m[i].is_dir
            /\ DecodedPairs(last.ret.data) = AsMap(files)

\* What does hold: the round trip of a store whose entries are all well formed.
RoundTripWellFormed ==
    (last.op = "create_zip" /\ WellFormed(files)) =>
        LET m == ZipDecode(last.ret.data)
        IN  /\ ~last.ret.raised
            /\ Len(m) = Len(files)
            /\ \A i, j \in 1..Len(m) : i # j => m[i].filename # m[j].filename
            /\ \A i \in 1..Len(m) : ~m[i].is_dir
            /\ DecodedPairs(last.ret.data) = AsMap(files)

RoundTripWellFormedWitness ==
    /\ last.op = "create_zip"
    /\ WellFormed(files)
    /\ Len(files) = 2
    /\ \E i \in 1..2 : files[i].content = <<233>>

(***************************************************************************)
(* C5: with an entry whose path is empty or whose path or content cannot   *)
(* be encoded, wherever it stands among the entries, the export fails with *)
(* an error that names the offending path, and returns no archive.         *)
(***************************************************************************)
C5_ExportFailsNamingPath ==
    (last.op = "create_zip" /\ \E i \in 1..Len(files) : Offending(files[i])) =>
        /\ last.ret.raised
        /\ last.ret.data = <<>>
        /\ \E i \in 1..Len(files) : Offending(files[i]) /\ last.ret.path = files[i].path

(***************************************************************************)
(* C6: create_zip() writes the members in the order get_all_files() lists  *)
(* the paths: ascending, whatever the order of insertion.                  *)
(***************************************************************************)
C6_ArchiveInListingOrder ==
    (last.op = "create_zip" /\ ~last.ret.raised) =>
        LET m == ZipDecode(last.ret.data)
        IN  \A i, j \in 1..Len(m) : i < j => ~Precedes(m[j].filename, m[i].filename)

(***************************************************************************)
(* C7: create_zip() leaves the mapping of the store as it was, and a       *)
(* second create_zip() right after a first returns an archive that decodes *)
(* to the same (path, content) pairs.                                      *)
(***************************************************************************)
C7_ExportIdempotent ==
    [][ last'.op = "create_zip" =>
            /\ AsMap(files') = AsMap(files)
            /\ Keys(files') = Keys(files)
            /\ (last.op = "create_zip" =>
                    /\ last'.ret.raised = last.ret.raised
                    /\ DecodedPairs(last'.ret.data) = DecodedPairs(last.ret.data)) ]_vars

\* The second of two exports in a row, of a store with two entries.
C7_Witness ==
    /\ last.op = "create_zip"
    /\ last.n = 2
    /\ ~last.ret.raised
    /\ Len(last.ret.data) = 2

(***************************************************************************)
(* C8: get_file(p) returns the content of the latest add_file(p, .) or     *)
(* successful update_file(p, .) not followed by delete_file(p), and '' if  *)
(* there is none; it changes nothing in the store, and the paths of the    *)
(* store are those written and not deleted since.                          *)
(***************************************************************************)
C8_GetFileLatestWrite ==
    /\ [](/\ last.op = "get_file" =>
                last.ret = IF lastWrite[last.path] = None THEN <<>> ELSE lastWrite[last.path]
          /\ KeySet(files) = Written)
    /\ [][last'.op = "get_file" => files' = files]_vars

\* get_file of a path that holds a text, while another path written before is gone.
C8_Witness ==
    /\ last.op = "get_file"
    /\ last.ret = <<233>>
    /\ <<last.path, <<233>>>> \in AsMap(files)
    /\ Len(files) = 1

(***************************************************************************)
(* C9: with docs included and Gemini asked for, a failure of the service   *)
(* (library missing, no API key, the call raising) stores a fallback text  *)
(* at <pkg>/docs/index.md, and the generation completes.                   *)
(***************************************************************************)
C9_GeminiFailureFallsBack ==
    (/\ last.op = "on_generate_package_clicked"
     /\ last.ret # "invalid"
     /\ include_docs
     /\ use_gemini
     /\ (~GEMINI_AVAILABLE \/ last.ret \in {"no_key", "raises"})) =>
        /\ status_output.msg = "Package created successfully!"
        /\ ~download_disabled
        /\ DocsIndexPath(package_name) \in KeySet(files)
        /\ DocsIndexPath(package_name) \in { file_list_options[i] : i \in 1..Len(file_list_options) }
        /\ DictGet(files, DocsIndexPath(package_name), None) =
               IF ~GEMINI_AVAILABLE THEN generate_basic_docs(package_name)
               ELSE IF last.ret = "no_key" THEN GeminiNoKeyText
               ELSE GeminiErrorText

\* The service call raised during a generation.
C9_Witness ==
    /\ last.op = "on_generate_package_clicked"
    /\ include_docs
    /\ use_gemini
    /\ GEMINI_AVAILABLE
    /\ last.ret = "raises"
    /\ DictGet(files, DocsIndexPath(package_name), None) = GeminiErrorText

(***************************************************************************)
(* C10: Save reports 'Changes saved' only with a file selected that is in  *)
(* the store, and then the store holds the editor's text at that path;     *)
(* with no file selected it changes no entry and says so; it never adds a  *)
(* path.                                                                   *)
(***************************************************************************)
C10_SaveOnlySelectedExisting ==
    [][ last'.op = "on_save_file_clicked" =>
            /\ (status_output'.msg = "Changes saved for" =>
                    /\ Truthy(file_list_value)
                    /\ file_list_value \in KeySet(files)
                    /\ <<file_list_value, file_editor>> \in AsMap(files'))
            /\ (~Truthy(file_list_value) =>
                    /\ files' = files
                    /\ status_output'.msg = "No file selected to save.")
            /\ KeySet(files') = KeySet(files) ]_vars

\* A save that changed the content of the selected file.
C10_Witness ==
    /\ last.op = "on_save_file_clicked"
    /\ status_output.msg = "Changes saved for"
    /\ last.ret = TRUE
    /\ <<file_list_value, <<233>>>> \in AsMap(files)

(***************************************************************************)
(* C11: after every completed handler (a generation that did not fail, add *)
(* file, delete file, save file, a selection) the options of the file list *)
(* are get_all_files() of the store: every option is a stored path and     *)
(* every stored path is an option.                                         *)
(***************************************************************************)
C11_FileListShowsStore ==
    (/\ last.op \in {"on_generate_package_clicked", "on_add_file_clicked",
                     "on_delete_file_clicked", "on_save_file_clicked", "on_file_selected"}
     /\ status_output.msg # "Error generating package") =>
        /\ file_list_options = get_all_files(files)
        /\ { file_list_options[i] : i \in 1..Len(file_list_options) } = KeySet(files)

\* A file was deleted from a generated package: the list shows the files that are
\* left, in an order that is not the dict's.
C11_Witness ==
    /\ last.op = "on_delete_file_clicked"
    /\ Truthy(last.path)
    /\ last.path \notin KeySet(files)
    /\ Len(files) >= 2
    /\ file_list_options = get_all_files(files)
    /\ file_list_options # Keys(files)

====
